---- MODULE Spec2Model ----
(***************************************************************************)
(* Chroma-key extraction (remove_background_advanced, advanced.py) and its *)
(* web wrapper (process_image, web.py).                                    *)
(*                                                                         *)
(* A pixel buffer is a record [w, h, px]: px is the row-major sequence of  *)
(* its w*h pixels.  A colour pixel is <<b, g, r>> (OpenCV order), a mask   *)
(* or alpha pixel an integer in 0..255, an output pixel <<b, g, r, a>>.    *)
(* despill_strength is a float in the code; it is carried here as the      *)
(* exact fraction <<num, den>> and multiplied the way a double is.         *)
(***************************************************************************)
EXTENDS Integers, Sequences, FiniteSets, TLC

VARIABLES
    fs,                 \* the file system: path -> buffer, or Absent
    pc,                 \* position of the remove_background_advanced call
    despill_strength, feather_amount, erode_iterations, dilate_iterations,
    lower_green, upper_green,
    img,                \* advanced.py:28
    mask,               \* advanced.py:38, 44, 48
    alpha_uint8,        \* advanced.py:64
    img_despilled,      \* advanced.py:129
    bgra,               \* advanced.py:132-133
    raised,             \* the exception the call ended with, or "none"
    wpc,                \* position of each process_image call
    image,              \* process_image's argument (RGB buffer or None)
    held,               \* bgra inside the call process_image makes, before its imwrite
    pending,            \* value of the return statement reached, held while finally runs
    result,             \* what process_image gave its caller
    disk                \* whether cv2.imwrite can create files: "ok", "full" or "flaky"

vars == <<fs, pc, despill_strength, feather_amount, erode_iterations,
          dilate_iterations, lower_green, upper_green, img, mask, alpha_uint8,
          img_despilled, bgra, raised, wpc, image, held, pending, result,
          disk>>

coreVars == <<pc, despill_strength, feather_amount, erode_iterations,
              dilate_iterations, lower_green, upper_green, img, mask,
              alpha_uint8, img_despilled, bgra, raised>>

webVars == <<wpc, image, held, pending, result, disk>>


\* ------------------------------------------------------------ bounds
MaxIter == 2
MaxUniSide == 4

\* ------------------------------------------------------------ helpers
Max2(a, b) == IF a >= b THEN a ELSE b
Min2(a, b) == IF a <= b THEN a ELSE b

\* cvRound(a / b) for a >= 0, b > 0 (no tie occurs for the tables below)
RoundDiv(a, b) == (2 * a + b) \div (2 * b)

Buffer(w, h, px) == [w |-> w, h |-> h, px |-> px]

\* a path with no file, a local not yet assigned, Python's None
Absent == Buffer(0, 0, <<>>)
NoValue == Buffer(0, 0, <<>>)
None == Buffer(0 - 1, 0, <<>>)
\* process_image left by an exception instead of a return
Raised == Buffer(0 - 2, 0, <<>>)

Uniform(w, h, p) == Buffer(w, h, [i \in 1..(w * h) |-> p])

XOf(i, w) == (i - 1) % w
YOf(i, w) == (i - 1) \div w
Idx(x, y, w) == y * w + x + 1

\* ------------------------------------------------------------ 4.1 classifier
\* cv2.cvtColor(img, cv2.COLOR_BGR2HSV) on 8-bit data: OpenCV's fixed-point
\* conversion (hsv_shift = 12, H in 0..180).
sdiv_table(v) == IF v = 0 THEN 0 ELSE RoundDiv(255 * 4096, v)
hdiv_table180(d) == IF d = 0 THEN 0 ELSE RoundDiv(180 * 4096, 6 * d)

BGR2HSV(p) ==
    LET b == p[1]
        g == p[2]
        r == p[3]
        v == Max2(b, Max2(g, r))
        vmin == Min2(b, Min2(g, r))
        diff == v - vmin
        s == (diff * sdiv_table(v) + 2048) \div 4096
        h0 == IF v = r THEN g - b
              ELSE IF v = g THEN b - r + 2 * diff
              ELSE r - g + 4 * diff
        h1 == (h0 * hdiv_table180(diff) + 2048) \div 4096
        h == IF h1 < 0 THEN h1 + 180 ELSE h1
    IN  <<h, s, v>>

\* cv2.inRange: 255 where every channel lies in its closed interval
InRangePx(hsv, lo, up) ==
    IF \A c \in 1..3 : lo[c] <= hsv[c] /\ hsv[c] <= up[c] THEN 255 ELSE 0

Classify(src, lo, up) ==
    Buffer(src.w, src.h,
           [i \in 1..(src.w * src.h) |-> InRangePx(BGR2HSV(src.px[i]), lo, up)])

\* ------------------------------------------------------------ 4.2 refiner
\* the pixels of the 3x3 neighbourhood of i that lie inside the buffer
\* (cv2.erode / cv2.dilate default border: pixels outside never decide)
Neighbours(i, w, h) ==
    { Idx(x, y, w) : x \in { xx \in (XOf(i, w) - 1)..(XOf(i, w) + 1) : xx >= 0 /\ xx < w },
                     y \in { yy \in (YOf(i, w) - 1)..(YOf(i, w) + 1) : yy >= 0 /\ yy < h } }

\* erosion with the outside of the buffer counted as 0
Erode3x3ZeroBorder(m) ==
    Buffer(m.w, m.h,
           [i \in 1..(m.w * m.h) |->
               IF /\ Cardinality(Neighbours(i, m.w, m.h)) = 9
                  /\ \A j \in Neighbours(i, m.w, m.h) : m.px[j] = 255
               THEN 255 ELSE 0])

Erode3x3(m) ==
    Buffer(m.w, m.h,
           [i \in 1..(m.w * m.h) |->
               IF \A j \in Neighbours(i, m.w, m.h) : m.px[j] = 255 THEN 255 ELSE 0])

Dilate3x3(m) ==
    Buffer(m.w, m.h,
           [i \in 1..(m.w * m.h) |->
               IF \E j \in Neighbours(i, m.w, m.h) : m.px[j] = 255 THEN 255 ELSE 0])

RECURSIVE Erode(_, _)
Erode(m, iterations) ==
    IF iterations <= 0 THEN m ELSE Erode(Erode3x3(m), iterations - 1)

RECURSIVE Dilate(_, _)
Dilate(m, iterations) ==
    IF iterations <= 0 THEN m ELSE Dilate(Dilate3x3(m), iterations - 1)

RefineMaskSwapped(m, er, di) ==
    LET dilated == IF di > 0 THEN Dilate(m, di) ELSE m
    IN  IF er > 0 THEN Erode(dilated, er) ELSE dilated

RefineMask(m, er, di) ==
    LET eroded == IF er > 0 THEN Erode(m, er) ELSE m
    IN  IF di > 0 THEN Dilate(eroded, di) ELSE eroded

\* ------------------------------------------------------------ 4.3 alpha synthesizer
NotInverted(m) == m

\* cv2.bitwise_not on 8-bit data
BitwiseNot(m) == Buffer(m.w, m.h, [i \in 1..(m.w * m.h) |-> 255 - m.px[i]])

\* advanced.py:59-60: an even feather_amount is incremented
KernelSize(fa) == IF fa % 2 = 0 THEN fa + 1 ELSE fa

\* cv2.getGaussianKernel(n, sigma = 0).  Up to 7 taps OpenCV uses fixed
\* tables whose weights are exact binary fractions (given here over
\* KernelDen); the 11-tap kernel is computed from exp() and normalised in
\* floating point (sigma = 2.0), given here to 1/1024.
GaussianKernel(n) ==
    CASE n = 1 -> <<1>>
      [] n = 3 -> <<1, 2, 1>>
      [] n = 5 -> <<1, 4, 6, 4, 1>>
      [] n = 7 -> <<4, 14, 28, 36, 28, 14, 4>>
      [] n = 11 -> <<9, 28, 67, 125, 181, 204, 181, 125, 67, 28, 9>>

RECURSIVE SumSeq(_, _)
SumSeq(s, n) == IF n = 0 THEN 0 ELSE s[n] + SumSeq(s, n - 1)

KernelDen(n) == SumSeq(GaussianKernel(n), n)

KernelIsTabulated(n) == n <= 7

\* What the floating-point sum of the weights of a computed kernel can be,
\* in units in the last place away from 1.0: the products and additions are
\* rounded, and the direction depends on the OpenCV build.  A tabulated
\* kernel sums to 1.0 exactly.
KernelRounding(n) == IF KernelIsTabulated(n) THEN {0} ELSE {-1, 0, 1}

\* cv2.BORDER_REFLECT_101, the default border of cv2.GaussianBlur
RECURSIVE Reflect101(_, _)
Reflect101(p, len) ==
    IF len = 1 THEN 0
    ELSE IF p < 0 THEN Reflect101(0 - p, len)
    ELSE IF p >= len THEN Reflect101(2 * (len - 1) - p, len)
    ELSE p

\* the pixels the n x n kernel centred on i reads
Footprint(i, w, h, n) ==
    LET c == (n - 1) \div 2
    IN  { Idx(Reflect101(XOf(i, w) + dx, w), Reflect101(YOf(i, w) + dy, h), w) :
              dx \in (0 - c)..c, dy \in (0 - c)..c }

\* cv2.GaussianBlur(alpha_float, (n, n), 0): rows, then columns.  The input
\* is alpha / 255.0, carried in units of 1/255; the result is in units of
\* 1 / (255 * KernelDen(n)^2).
GaussianBlur(a, n) ==
    LET k == GaussianKernel(n)
        c == (n - 1) \div 2
        rows == [i \in 1..(a.w * a.h) |->
                    SumSeq([t \in 1..n |->
                        k[t] * a.px[Idx(Reflect101(XOf(i, a.w) + t - 1 - c, a.w),
                                        YOf(i, a.w), a.w)]], n)]
    IN  Buffer(a.w, a.h,
               [i \in 1..(a.w * a.h) |->
                   SumSeq([t \in 1..n |->
                       k[t] * rows[Idx(XOf(i, a.w),
                                       Reflect101(YOf(i, a.w) + t - 1 - c, a.h),
                                       a.w)]], n)])

\* (alpha_float * 255).astype(np.uint8): truncation toward zero of a value
\* that is num / den, moved by dev units in the last place when it is not 0
TruncToUint8(num, den, dev) ==
    IF num = 0 THEN 0
    ELSE IF num % den = 0 /\ dev < 0 THEN (num \div den) - 1
    ELSE num \div den

\* advanced.py:52-64
AlphaSynth(m, fa, dev) ==
    LET alpha == BitwiseNot(m)
    IN  IF fa > 0
        THEN LET n == KernelSize(fa)
                 d2 == KernelDen(n) * KernelDen(n)
                 blurred == GaussianBlur(alpha, n)
             IN  Buffer(m.w, m.h,
                        [i \in 1..(m.w * m.h) |-> TruncToUint8(blurred.px[i], d2, dev)])
        ELSE alpha

\* ------------------------------------------------------------ 4.4 spill corrector
DespillThreshold == 20

\* int(e * s) for the double nearest to s = num/den: the exact quotient,
\* except where the double product falls just below an integer
FloatMulTrunc(e, s) ==
    LET exact == (e * s[1]) \div s[2]
    IN  IF s = <<7, 10>> /\ e \in {90, 170, 180} THEN exact - 1 ELSE exact

\* .astype(np.uint8) of a non-negative float: defined for 0..255; beyond that
\* the C cast is undefined and the build either wraps or saturates
CastOutcomes == {"wrap", "saturate"}

CastUint8(v, cast) ==
    IF v <= 255 THEN v ELSE IF cast = "saturate" THEN 255 ELSE v % 256

max_rb(p) == Max2(p[3], p[1])

\* advanced.py:76-77: computed in int16, then clamped at 0
green_excess(p) == Max2(p[2] - max_rb(p), 0)

despill_mask_ge(p) == p[2] > max_rb(p) /\ green_excess(p) >= DespillThreshold

\* advanced.py:113
despill_mask(p) == p[2] > max_rb(p) /\ green_excess(p) > DespillThreshold

\* advanced.py:118
amount_above_threshold(p, s, cast) ==
    CastUint8(FloatMulTrunc(Max2(green_excess(p) - DespillThreshold, 0), s), cast)

amount(p, s, cast) == CastUint8(FloatMulTrunc(green_excess(p), s), cast)

\* advanced.py:116-121 for one pixel: g - amount is uint8 arithmetic
DespillPx(p, s, cast) ==
    IF s[1] > 0
    THEN IF despill_mask(p)
         THEN <<p[1], (p[2] - amount(p, s, cast)) % 256, p[3]>>
         ELSE p
    ELSE p

Despill(src, s, cast) ==
    Buffer(src.w, src.h, [i \in 1..(src.w * src.h) |-> DespillPx(src.px[i], s, cast)])

\* ------------------------------------------------------------ 4.5 compositor
\* advanced.py:129-133
Composite(colour, alpha) ==
    Buffer(colour.w, colour.h,
           [i \in 1..(colour.w * colour.h) |->
               <<colour.px[i][1], colour.px[i][2], colour.px[i][3], alpha.px[i]>>])

\* remove_background_advanced between its imread and its imwrite
Pipeline(src, s, fa, er, di, lo, up, dev, cast) ==
    Composite(Despill(src, s, cast),
              AlphaSynth(RefineMask(Classify(src, lo, up), er, di), fa, dev))

\* ------------------------------------------------------------ inputs
Green == <<0, 255, 0>>
White == <<255, 255, 255>>
\* a light green whose saturation is below the default lower bound
Spill == <<150, 200, 150>>
\* a darker green inside the default bounds
Leaf == <<100, 200, 100>>

DefaultLower == <<35, 100, 100>>
DefaultUpper == <<85, 255, 255>>
DefaultStrength == <<7, 10>>
DefaultFeather == 5
DefaultErode == 0
DefaultDilate == 1

image_path == "in.png"
output_path == "out.png"
temp_input == "temp_input.png"
temp_output == "temp_output.png"
Paths == {image_path, output_path, temp_input, temp_output}

Procs == {1, 2}

\* every buffer of the given sizes over a palette
Images(sizes, palette) ==
    UNION { { Buffer(sz[1], sz[2], px) : px \in [1..(sz[1] * sz[2]) -> palette] } :
            sz \in sizes }

SmallSizes == {<<1, 1>>, <<2, 1>>, <<1, 2>>, <<2, 2>>}
MaskSizes == SmallSizes \cup {<<3, 1>>, <<1, 3>>, <<3, 2>>, <<2, 3>>, <<3, 3>>, <<4, 2>>}

ChannelVals == {0, 1, 20, 21, 22, 90, 127, 128, 170, 180, 200, 235, 255}
ValidStrengths == {<<0, 1>>, <<1, 4>>, <<1, 2>>, <<7, 10>>, <<1, 1>>}
InvalidStrengths == {<<-1, 4>>, <<5, 4>>, <<2, 1>>}
\* feather_amount values that reach every kernel GaussianKernel gives
FeatherVals == {0, 1, 2, 4, 5, 6, 7, 10, 11}

StrengthInRange(s) == s[1] >= 0 /\ s[1] <= s[2]

\* ------------------------------------------------------------ remove_background_advanced
CoreIdle ==
    /\ wpc = [p \in Procs |-> "idle"]
    /\ image = [p \in Procs |-> None]
    /\ held = [p \in Procs |-> NoValue]
    /\ pending = [p \in Procs |-> NoValue]
    /\ result = [p \in Procs |-> NoValue]
    /\ disk = "ok"

CoreStart(inputs, strengths, feathers, erodes, dilates, bounds) ==
    /\ \E src \in inputs :
           fs = [f \in Paths |-> IF f = image_path THEN src ELSE Absent]
    /\ pc = "read"
    /\ despill_strength \in strengths
    /\ feather_amount \in feathers
    /\ erode_iterations \in erodes
    /\ dilate_iterations \in dilates
    /\ \E b \in bounds : lower_green = b[1] /\ upper_green = b[2]
    /\ img = NoValue
    /\ mask = NoValue
    /\ alpha_uint8 = NoValue
    /\ img_despilled = NoValue
    /\ bgra = NoValue
    /\ raised = "none"
    /\ CoreIdle

\* advanced.py:28-30
ReadImageUnchecked ==
    /\ pc = "read"
    /\ img' = IF fs[image_path] = Absent THEN Uniform(1, 1, <<0, 0, 0>>) ELSE fs[image_path]
    /\ pc' = "classify"
    /\ UNCHANGED <<fs, despill_strength, feather_amount, erode_iterations,
                   dilate_iterations, lower_green, upper_green, mask, alpha_uint8,
                   img_despilled, bgra, raised, webVars>>

ReadImage ==
    /\ pc = "read"
    /\ IF fs[image_path] = Absent
       THEN /\ raised' = "FileNotFoundError"
            /\ pc' = "failed"
            /\ img' = img
       ELSE /\ img' = fs[image_path]
            /\ pc' = "classify"
            /\ raised' = raised
    /\ UNCHANGED <<fs, despill_strength, feather_amount, erode_iterations,
                   dilate_iterations, lower_green, upper_green, mask, alpha_uint8,
                   img_despilled, bgra, webVars>>

\* advanced.py:33-38
ClassifyStage ==
    /\ pc = "classify"
    /\ mask' = Classify(img, lower_green, upper_green)
    /\ pc' = "refine"
    /\ UNCHANGED <<fs, despill_strength, feather_amount, erode_iterations,
                   dilate_iterations, lower_green, upper_green, img, alpha_uint8,
                   img_despilled, bgra, raised, webVars>>

\* advanced.py:42-48
RefineStage ==
    /\ pc = "refine"
    /\ mask' = RefineMask(mask, erode_iterations, dilate_iterations)
    /\ pc' = "alpha"
    /\ UNCHANGED <<fs, despill_strength, feather_amount, erode_iterations,
                   dilate_iterations, lower_green, upper_green, img, alpha_uint8,
                   img_despilled, bgra, raised, webVars>>

\* advanced.py:52-64
AlphaStage ==
    /\ pc = "alpha"
    /\ \E dev \in (IF feather_amount > 0 THEN KernelRounding(KernelSize(feather_amount))
                   ELSE {0}) :
           alpha_uint8' = AlphaSynth(mask, feather_amount, dev)
    /\ pc' = "despill"
    /\ UNCHANGED <<fs, despill_strength, feather_amount, erode_iterations,
                   dilate_iterations, lower_green, upper_green, img, mask,
                   img_despilled, bgra, raised, webVars>>

\* advanced.py:68-129 (dilated_green_mask of line 103 is never read)
DespillStage ==
    /\ pc = "despill"
    /\ \E cast \in (IF despill_strength[1] > despill_strength[2] THEN CastOutcomes
                    ELSE {"wrap"}) :
           img_despilled' = Despill(img, despill_strength, cast)
    /\ pc' = "composite"
    /\ UNCHANGED <<fs, despill_strength, feather_amount, erode_iterations,
                   dilate_iterations, lower_green, upper_green, img, mask,
                   alpha_uint8, bgra, raised, webVars>>

\* advanced.py:132-133
CompositeStage ==
    /\ pc = "composite"
    /\ bgra' = Composite(img_despilled, alpha_uint8)
    /\ pc' = "save"
    /\ UNCHANGED <<fs, despill_strength, feather_amount, erode_iterations,
                   dilate_iterations, lower_green, upper_green, img, mask,
                   alpha_uint8, img_despilled, raised, webVars>>

\* advanced.py:136
Save ==
    /\ pc = "save"
    /\ fs' = [fs EXCEPT ![output_path] = bgra]
    /\ pc' = "done"
    /\ UNCHANGED <<despill_strength, feather_amount, erode_iterations,
                   dilate_iterations, lower_green, upper_green, img, mask,
                   alpha_uint8, img_despilled, bgra, raised, webVars>>

NextCore ==
    \/ ReadImage
    \/ ClassifyStage
    \/ RefineStage
    \/ AlphaStage
    \/ DespillStage
    \/ CompositeStage
    \/ Save

DefaultBounds == {<<DefaultLower, DefaultUpper>>}

\* the despill stage on every colour of one pixel (and on small pictures)
InitDespill ==
    CoreStart(Images({<<1, 1>>}, ChannelVals \X ChannelVals \X ChannelVals)
                  \cup Images({<<2, 1>>, <<2, 2>>}, {Green, White, Spill}),
              ValidStrengths, {DefaultFeather}, {DefaultErode}, {DefaultDilate},
              DefaultBounds)

SpecDespill == InitDespill /\ [][NextCore]_vars

\* valid and out-of-range parameters, a source file that may be missing
InitParams ==
    CoreStart(Images({<<1, 1>>, <<2, 1>>}, {Green, White, Spill}) \cup {Absent},
              ValidStrengths \cup InvalidStrengths, {0, 4, DefaultFeather},
              (0 - 1)..MaxIter, (0 - 1)..MaxIter, DefaultBounds)

SpecParams == InitParams /\ [][NextCore]_vars

\* every two-level mask up to 3x3 (and 4x2), every iteration count
InitRefine ==
    CoreStart(Images(MaskSizes, {Green, White}),
              {DefaultStrength}, {0, DefaultFeather}, 0..MaxIter, 0..MaxIter,
              DefaultBounds)

SpecRefine == InitRefine /\ [][NextCore]_vars

\* every two-level mask, every kernel
InitFeather ==
    CoreStart(Images(MaskSizes, {Green, White}),
              {DefaultStrength}, FeatherVals, {0}, {0}, DefaultBounds)

SpecFeather == InitFeather /\ [][NextCore]_vars

NarrowBounds == <<<<50, 200, 150>>, <<70, 255, 255>>>>

\* pictures made of colours inside the default bounds, every valid parameter
InitUniform ==
    CoreStart(Images(SmallSizes, {Green, Leaf})
                  \cup { Uniform(w, h, Green) : w \in 1..MaxUniSide, h \in 1..MaxUniSide },
              {DefaultStrength}, FeatherVals, 0..MaxIter, 0..MaxIter,
              DefaultBounds \cup {NarrowBounds})

SpecUniform == InitUniform /\ [][NextCore]_vars

\* ------------------------------------------------------------ process_image
\* cv2.cvtColor(image, cv2.COLOR_RGB2BGR): the first and third channel change places
RGB2BGR(buf) ==
    Buffer(buf.w, buf.h,
           [i \in 1..(buf.w * buf.h) |-> <<buf.px[i][3], buf.px[i][2], buf.px[i][1]>>])

\* cv2.cvtColor(result_bgra, cv2.COLOR_BGRA2RGBA)
BGRA2RGBA(buf) ==
    Buffer(buf.w, buf.h,
           [i \in 1..(buf.w * buf.h) |->
               <<buf.px[i][3], buf.px[i][2], buf.px[i][1], buf.px[i][4]>>])

\* the call of web.py:29-36 with the sliders' initial values
DefaultPipeline(src) ==
    Pipeline(src, DefaultStrength, DefaultFeather, DefaultErode, DefaultDilate,
             DefaultLower, DefaultUpper, 0, "wrap")

\* what one undisturbed process_image call returns for an RGB picture
ProcessAlone(rgb) == BGRA2RGBA(DefaultPipeline(RGB2BGR(rgb)))

\* cv2.imwrite returns False and writes nothing when the file cannot be created
WriteOutcomes(d) ==
    IF d = "ok" THEN {TRUE} ELSE IF d = "full" THEN {FALSE} ELSE BOOLEAN

\* web.py:15-25
WriteInput(p) ==
    /\ wpc[p] = "start"
    /\ IF image[p] = None
       THEN /\ result' = [result EXCEPT ![p] = None]
            /\ wpc' = [wpc EXCEPT ![p] = "done"]
            /\ fs' = fs
       ELSE /\ \E ok \in WriteOutcomes(disk) :
                   fs' = IF ok THEN [fs EXCEPT ![temp_input] = RGB2BGR(image[p])] ELSE fs
            /\ wpc' = [wpc EXCEPT ![p] = "call"]
            /\ result' = result
    /\ UNCHANGED <<coreVars, image, held, pending, disk>>

\* web.py:29 entering advanced.py:28-133; an exception goes to web.py:44-46
CallPipeline(p) ==
    /\ wpc[p] = "call"
    /\ IF fs[temp_input] = Absent
       THEN /\ pending' = [pending EXCEPT ![p] = None]
            /\ wpc' = [wpc EXCEPT ![p] = "exists_in"]
            /\ held' = held
       ELSE /\ held' = [held EXCEPT ![p] = DefaultPipeline(fs[temp_input])]
            /\ wpc' = [wpc EXCEPT ![p] = "call_save"]
            /\ pending' = pending
    /\ UNCHANGED <<coreVars, fs, image, result, disk>>

\* advanced.py:136 inside the call
CallSave(p) ==
    /\ wpc[p] = "call_save"
    /\ \E ok \in WriteOutcomes(disk) :
           fs' = IF ok THEN [fs EXCEPT ![temp_output] = held[p]] ELSE fs
    /\ wpc' = [wpc EXCEPT ![p] = "read_back"]
    /\ UNCHANGED <<coreVars, image, held, pending, result, disk>>

\* web.py:40-46: imread gives None for a missing file and cvtColor then raises
ReadBack(p) ==
    /\ wpc[p] = "read_back"
    /\ pending' = [pending EXCEPT ![p] =
                      IF fs[temp_output] = Absent THEN None
                      ELSE BGRA2RGBA(fs[temp_output])]
    /\ wpc' = [wpc EXCEPT ![p] = "exists_in"]
    /\ UNCHANGED <<coreVars, fs, image, held, result, disk>>

\* web.py:49
ExistsInput(p) ==
    /\ wpc[p] = "exists_in"
    /\ wpc' = [wpc EXCEPT ![p] =
                  IF fs[temp_input] # Absent THEN "remove_in" ELSE "exists_out"]
    /\ UNCHANGED <<coreVars, fs, image, held, pending, result, disk>>

\* web.py:50: os.remove of a file that is gone raises out of the finally block
RemoveInput(p) ==
    /\ wpc[p] = "remove_in"
    /\ IF fs[temp_input] = Absent
       THEN /\ result' = [result EXCEPT ![p] = Raised]
            /\ wpc' = [wpc EXCEPT ![p] = "done"]
            /\ fs' = fs
       ELSE /\ fs' = [fs EXCEPT ![temp_input] = Absent]
            /\ wpc' = [wpc EXCEPT ![p] = "exists_out"]
            /\ result' = result
    /\ UNCHANGED <<coreVars, image, held, pending, disk>>

\* web.py:51, and the return when there is nothing to remove
ExistsOutput(p) ==
    /\ wpc[p] = "exists_out"
    /\ IF fs[temp_output] # Absent
       THEN /\ wpc' = [wpc EXCEPT ![p] = "remove_out"]
            /\ result' = result
       ELSE /\ wpc' = [wpc EXCEPT ![p] = "done"]
            /\ result' = [result EXCEPT ![p] = pending[p]]
    /\ UNCHANGED <<coreVars, fs, image, held, pending, disk>>

RemoveOutputSkipped(p) ==
    /\ wpc[p] = "remove_out"
    /\ result' = [result EXCEPT ![p] = pending[p]]
    /\ wpc' = [wpc EXCEPT ![p] = "done"]
    /\ UNCHANGED <<coreVars, fs, image, held, pending, disk>>

\* web.py:52, then the return
RemoveOutput(p) ==
    /\ wpc[p] = "remove_out"
    /\ IF fs[temp_output] = Absent
       THEN /\ result' = [result EXCEPT ![p] = Raised]
            /\ fs' = fs
       ELSE /\ fs' = [fs EXCEPT ![temp_output] = Absent]
            /\ result' = [result EXCEPT ![p] = pending[p]]
    /\ wpc' = [wpc EXCEPT ![p] = "done"]
    /\ UNCHANGED <<coreVars, image, held, pending, disk>>

NextWeb ==
    \E p \in Procs :
        \/ WriteInput(p)
        \/ CallPipeline(p)
        \/ CallSave(p)
        \/ ReadBack(p)
        \/ ExistsInput(p)
        \/ RemoveInput(p)
        \/ ExistsOutput(p)
        \/ RemoveOutput(p)

\* RGB pictures handed over by the front end
WebPalette == {<<0, 255, 0>>, <<255, 255, 255>>, <<150, 200, 150>>}
WebImages == Images({<<1, 1>>, <<2, 1>>}, WebPalette) \cup {None}

WebStart(running, disks) ==
    /\ fs = [f \in Paths |-> Absent]
    /\ pc = "idle"
    /\ despill_strength = DefaultStrength
    /\ feather_amount = DefaultFeather
    /\ erode_iterations = DefaultErode
    /\ dilate_iterations = DefaultDilate
    /\ lower_green = DefaultLower
    /\ upper_green = DefaultUpper
    /\ img = NoValue
    /\ mask = NoValue
    /\ alpha_uint8 = NoValue
    /\ img_despilled = NoValue
    /\ bgra = NoValue
    /\ raised = "none"
    /\ wpc = [p \in Procs |-> IF p \in running THEN "start" ELSE "idle"]
    /\ image \in [Procs -> WebImages]
    /\ \A p \in Procs : p \notin running => image[p] = None
    /\ held = [p \in Procs |-> NoValue]
    /\ pending = [p \in Procs |-> NoValue]
    /\ result = [p \in Procs |-> NoValue]
    /\ disk \in disks

\* two requests served at the same time, working directory writable
InitWeb == WebStart(Procs, {"ok"})

SpecWeb == InitWeb /\ [][NextWeb]_vars

\* one request, working directory writable or not
InitWebSingle == WebStart({1}, {"ok", "full", "flaky"})

SpecWebSingle == InitWebSingle /\ [][NextWeb]_vars

\* ------------------------------------------------------------ claims
Pixels(buf) == 1..(buf.w * buf.h)

\* C1: two process_image calls running at the same time on different
\* pictures each return what the pipeline gives for their own picture:
\* never the other call's picture, never a missing result.
C1_Isolated ==
    image[1] # image[2] =>
        \A p \in Procs :
            (wpc[p] = "done" /\ image[p] # None) => result[p] = ProcessAlone(image[p])

\* C1, where it goes wrong: a call that ended with another picture's
\* result, with None, or with an exception.
C1_Disturbed ==
    \E p \in Procs :
        /\ wpc[p] = "done"
        /\ image[p] # None
        /\ image[1] # image[2]
        /\ result[p] # ProcessAlone(image[p])

OutOfRange ==
    \/ ~StrengthInRange(despill_strength)
    \/ erode_iterations < 0
    \/ dilate_iterations < 0

\* C2: with despill_strength outside [0, 1] or a negative iteration count
\* the call fails with an error and writes no output.
C2_Rejected ==
    OutOfRange => (pc # "done" /\ fs[output_path] = Absent)

\* C2, where it goes wrong: an out-of-range call that ran to the end
\* without an error and wrote its output.
C2_Accepted ==
    /\ OutOfRange
    /\ pc = "done"
    /\ raised = "none"
    /\ fs[output_path] # Absent

Eligible(p) == p[2] > Max2(p[3], p[1]) /\ p[2] - Max2(p[3], p[1]) > 20

\* C3: with despill_strength = 1.0 the green of every eligible pixel
\* becomes max(red, blue) of that pixel, and the subtraction never wraps.
C3_FullStrength ==
    (img_despilled # NoValue /\ despill_strength = <<1, 1>>) =>
        \A i \in Pixels(img) :
            Eligible(img.px[i]) =>
                /\ img_despilled.px[i][2] = Max2(img.px[i][3], img.px[i][1])
                /\ img_despilled.px[i][2] <= img.px[i][2]

\* C3: red 0, green 200, blue 0 at full strength came out with green 0.
C3_Witness ==
    /\ img_despilled # NoValue
    /\ despill_strength = <<1, 1>>
    /\ img.px[1] = <<0, 200, 0>>
    /\ img_despilled.px[1] = <<0, 0, 0>>

\* C4: for every strength in [0, 1] the despill stage leaves red and blue of
\* every pixel alone, leaves every pixel with green - max(red, blue) <= 20
\* alone, changes nothing at strength 0, and lowers the green of every
\* eligible pixel by the truncated excess * strength whatever its mask or
\* alpha value is.
C4_OnlyEligibleGreen ==
    img_despilled # NoValue =>
        \A i \in Pixels(img) :
            LET p == img.px[i]
                q == img_despilled.px[i]
                e == p[2] - Max2(p[3], p[1])
                exact == (e * despill_strength[1]) \div despill_strength[2]
            IN  /\ q[1] = p[1]
                /\ q[3] = p[3]
                /\ e <= 20 => q = p
                /\ despill_strength[1] = 0 => q = p
                /\ Eligible(p) => p[2] - q[2] \in {exact, exact - 1}
                /\ (Eligible(p) /\ exact >= 2) => q[2] < p[2]

\* C4: a pixel the mask marks as background (alpha 0) had its green lowered,
\* next to the stage having run on it.
C4_Witness ==
    /\ pc = "done"
    /\ despill_strength[1] > 0
    /\ \E i \in Pixels(img) :
           /\ Eligible(img.px[i])
           /\ mask.px[i] = 255
           /\ alpha_uint8.px[i] = 0
           /\ img_despilled.px[i][2] < img.px[i][2]

UniformFootprint(i) ==
    \A j \in Footprint(i, mask.w, mask.h, KernelSize(feather_amount)) :
        mask.px[j] = mask.px[i]

C5_TabulatedKernels ==
    (alpha_uint8 # NoValue /\ feather_amount > 0 /\ KernelSize(feather_amount) <= 7) =>
        \A i \in Pixels(mask) :
            UniformFootprint(i) => alpha_uint8.px[i] = 255 - mask.px[i]

AllInBounds ==
    /\ img # NoValue
    /\ \A i \in Pixels(img) :
           LET hsv == BGR2HSV(img.px[i])
           IN  \A c \in 1..3 : lower_green[c] <= hsv[c] /\ hsv[c] <= upper_green[c]

\* C6: when every pixel of the input lies inside the configured bounds, the
\* alpha of every pixel is 0, border pixels included, for every valid
\* parameter set.
C6_AllTransparent ==
    AllInBounds =>
        /\ alpha_uint8 # NoValue => \A i \in Pixels(img) : alpha_uint8.px[i] = 0
        /\ bgra # NoValue => \A i \in Pixels(img) : bgra.px[i][4] = 0
        /\ fs[output_path] # Absent =>
               /\ fs[output_path].w = img.w
               /\ fs[output_path].h = img.h
               /\ \A i \in Pixels(img) : fs[output_path].px[i][4] = 0

\* C6: the 4x4 picture of RGB (0, 255, 0) with the defaults, written out
\* with alpha 0 everywhere.
C6_Witness ==
    /\ pc = "done"
    /\ img = Uniform(4, 4, Green)
    /\ despill_strength = DefaultStrength
    /\ feather_amount = DefaultFeather
    /\ erode_iterations = DefaultErode
    /\ dilate_iterations = DefaultDilate
    /\ lower_green = DefaultLower
    /\ \A i \in 1..16 : fs[output_path].px[i][4] = 0

\* C7: a source that cannot be read ends the call with the not-found error
\* before any stage has run and without an output; the output exists only
\* once every stage has completed, and is then the complete composite.
C7_FailFirstWriteLast ==
    /\ fs[image_path] = Absent =>
           /\ pc \in {"read", "failed"}
           /\ img = NoValue /\ mask = NoValue /\ alpha_uint8 = NoValue
           /\ img_despilled = NoValue /\ bgra = NoValue
           /\ fs[output_path] = Absent
           /\ pc = "failed" => raised = "FileNotFoundError"
    /\ pc = "failed" => fs[output_path] = Absent
    /\ fs[output_path] # Absent =>
           /\ pc = "done"
           /\ raised = "none"
           /\ mask # NoValue /\ alpha_uint8 # NoValue /\ img_despilled # NoValue
           /\ fs[output_path] = bgra
           /\ bgra = Composite(img_despilled, alpha_uint8)

\* C7: the call has failed on a missing source.
C7_Witness ==
    /\ fs[image_path] = Absent
    /\ pc = "failed"
    /\ raised = "FileNotFoundError"
    /\ fs[output_path] = Absent

\* C8: with feather_amount = 0 the alpha is the inverse of the refined mask,
\* 0 where the mask is 255 and 255 where it is 0; the 2x2 picture with one
\* green and three white pixels (erode 0, dilate 0) gets alpha 0, 255, 255,
\* 255 and keeps the white pixels' colours.
C8_InverseMask ==
    /\ (alpha_uint8 # NoValue /\ feather_amount = 0) =>
           \A i \in Pixels(mask) :
               /\ mask.px[i] \in {0, 255}
               /\ mask.px[i] = 255 => alpha_uint8.px[i] = 0
               /\ mask.px[i] = 0 => alpha_uint8.px[i] = 255
    /\ (/\ bgra # NoValue
        /\ feather_amount = 0 /\ erode_iterations = 0 /\ dilate_iterations = 0
        /\ img = Buffer(2, 2, <<Green, White, White, White>>)) =>
           /\ bgra.px[1][4] = 0
           /\ \A i \in 2..4 : bgra.px[i] = <<255, 255, 255, 255>>

\* C8: the 2x2 example, written out.
C8_Witness ==
    /\ pc = "done"
    /\ feather_amount = 0 /\ erode_iterations = 0 /\ dilate_iterations = 0
    /\ img = Buffer(2, 2, <<Green, White, White, White>>)
    /\ [i \in 1..4 |-> fs[output_path].px[i][4]] = <<0, 255, 255, 255>>

\* the pixels of the buffer within n steps (in both directions) of pixel i
Ball(i, n, w, h) ==
    { j \in 1..(w * h) :
          /\ XOf(j, w) - XOf(i, w) \in (0 - n)..n
          /\ YOf(j, w) - YOf(i, w) \in (0 - n)..n }

IsSpeck(m, i) ==
    /\ m.px[i] = 255
    /\ Ball(i, 1, m.w, m.h) # {i}
    /\ \A j \in Ball(i, 1, m.w, m.h) \ {i} : m.px[j] = 0

\* C9: the refined mask (the mask once the refiner has run) is the classification eroded N times and then
\* dilated M times over 3x3 neighbourhoods (a count of 0 skips the step);
\* with N = M >= 1 an isolated background pixel is gone and a background
\* pixel whose surroundings are all background stays 255.
C9_ErodeThenDilate ==
    pc = "alpha" =>
        LET raw == Classify(img, lower_green, upper_green)
            N == erode_iterations
            M == dilate_iterations
        IN  /\ \A i \in Pixels(mask) :
                   mask.px[i] = 255 <=>
                       \E q \in Ball(i, M, mask.w, mask.h) :
                           \A r \in Ball(q, N, mask.w, mask.h) : raw.px[r] = 255
            /\ (N = M /\ N >= 1) =>
                   \A i \in Pixels(mask) :
                       /\ IsSpeck(raw, i) => mask.px[i] = 0
                       /\ (\A r \in Ball(i, N, mask.w, mask.h) : raw.px[r] = 255)
                              => mask.px[i] = 255

\* C9: one erosion and one dilation have removed a speck and kept the
\* inside of a background block.
C9_Witness ==
    /\ pc = "alpha"
    /\ erode_iterations = 1 /\ dilate_iterations = 1
    /\ LET raw == Classify(img, lower_green, upper_green)
       IN  /\ \E i \in Pixels(mask) : IsSpeck(raw, i) /\ mask.px[i] = 0
           /\ \E i \in Pixels(mask) :
                  /\ Cardinality(Ball(i, 1, mask.w, mask.h)) >= 4
                  /\ \A r \in Ball(i, 1, mask.w, mask.h) : raw.px[r] = 255
                  /\ mask.px[i] = 255

\* C10: one process_image call on its own leaves neither temporary file
\* behind; with image None it returns None without creating a file or
\* calling the pipeline; a failing pipeline gives the return value None, not
\* an exception.
C10_NoTempLeft ==
    /\ wpc[1] = "done" =>
           /\ fs[temp_input] = Absent
           /\ fs[temp_output] = Absent
           /\ result[1] \notin {Raised, NoValue}
    /\ image[1] = None =>
           /\ fs[temp_input] = Absent
           /\ fs[temp_output] = Absent
           /\ held[1] = NoValue
           /\ wpc[1] \in {"start", "done"}
           /\ wpc[1] = "done" => result[1] = None
    /\ (wpc[1] = "done" /\ image[1] # None) =>
           /\ disk = "ok" => result[1] = ProcessAlone(image[1])
           /\ disk = "full" => result[1] = None
           /\ result[1] \in {ProcessAlone(image[1]), None}

\* C10: a call whose pipeline failed has returned None with no file left.
C10_Witness ==
    /\ wpc[1] = "done"
    /\ image[1] # None
    /\ disk = "flaky"
    /\ result[1] = None
    /\ fs[temp_input] = Absent
    /\ fs[temp_output] = Absent

====
